---- MODULE Spec2Model ----
(***************************************************************************)
(* resnap-rs: remote framebuffer capture and content extraction            *)
(* (src/src/main.rs).  main() is one sequential pipeline:                  *)
(*   pidof -> grep maps -> (scan pids) -> address -> dd -> raw file ->     *)
(*   ffmpeg -> image::open -> threshold/contours/bounding box -> crop.     *)
(* Each remote command (an .await point) and each external process call    *)
(* is one action; the remote device (its processes, their mapping tables,  *)
(* the page on its screen) is the environment.                             *)
(***************************************************************************)
EXTENDS Integers, Sequences, FiniteSets, TLC

(***************************************************************************)
(* Program constants                                                       *)
(***************************************************************************)
width == 1872
height == 1404
bytes_per_pixel == 2
skip_correction == 7
threshold == 200
ui_exclude_x == 200
ui_exclude_y == 200
init_max_x == 150
min_contour_size == 100
padding == 50

window_bytes == width * height * bytes_per_pixel

\* The decoder is run with "transpose=2,hflip": the decoded image is the
\* frame turned by 90 degrees, so its width is the frame's height.
img_width == height
img_height == width

(***************************************************************************)
(* Bounds of the model                                                     *)
(***************************************************************************)
\* most entries in one process's mapping table
MaxVmas == 3
\* most ink strokes on the page
MaxStrokes == 2

(***************************************************************************)
(* Text: a string is a sequence of one-character strings                   *)
(***************************************************************************)
Whitespace == {" ", "\n", "\t"}

HexChars == <<"0", "1", "2", "3", "4", "5", "6", "7",
              "8", "9", "a", "b", "c", "d", "e", "f">>

DecChars == <<"0", "1", "2", "3", "4", "5", "6", "7", "8", "9">>

RECURSIVE Digits(_, _, _)
\* n written in the given base with the given digit characters, no padding
Digits(n, base, chars) ==
    IF n < base THEN <<chars[n + 1]>>
    ELSE Digits(n \div base, base, chars) \o <<chars[(n % base) + 1]>>

RECURSIVE PadLeft(_, _, _)
PadLeft(s, w, c) == IF Len(s) >= w THEN s ELSE PadLeft(<<c>> \o s, w, c)

\* the kernel prints a mapping's addresses as %08lx
ToHex(n) == PadLeft(Digits(n, 16, HexChars), 8, "0")

\* a process id as pidof prints it and as format!("/proc/{}/maps") takes it
ToDec(n) == Digits(n, 10, DecChars)

\* value of one hexadecimal digit, -1 for any other character
HexVal(c) ==
    IF \E i \in 1..16 : HexChars[i] = c
    THEN (CHOOSE i \in 1..16 : HexChars[i] = c) - 1
    ELSE IF c = "A" THEN 10 ELSE IF c = "B" THEN 11 ELSE IF c = "C" THEN 12
    ELSE IF c = "D" THEN 13 ELSE IF c = "E" THEN 14 ELSE IF c = "F" THEN 15
    ELSE -1

RECURSIVE HexAcc(_, _)
HexAcc(s, acc) ==
    IF s = <<>> THEN acc ELSE HexAcc(Tail(s), acc * 16 + HexVal(Head(s)))

\* a parse that takes an empty or malformed text for 0
parse_or_zero(s) ==
    IF s = <<>> \/ \E i \in 1..Len(s) : HexVal(s[i]) < 0
    THEN [ok |-> TRUE, val |-> 0]
    ELSE [ok |-> TRUE, val |-> HexAcc(s, 0)]

\* u64::from_str_radix(s, 16): an optional "+", then one or more hexadecimal
\* digits; anything else (the empty string too) is an error.  Every address
\* of the model has eight digits and is below 2^31, far from u64's range.
from_str_radix(s) ==
    LET digits == IF s # <<>> /\ Head(s) = "+" THEN Tail(s) ELSE s
    IN  IF digits = <<>> \/ \E i \in 1..Len(digits) : HexVal(digits[i]) < 0
        THEN [ok |-> FALSE, val |-> 0]
        ELSE [ok |-> TRUE, val |-> HexAcc(digits, 0)]

RECURSIVE TrimStart(_)
TrimStart(s) ==
    IF s # <<>> /\ Head(s) \in Whitespace THEN TrimStart(Tail(s)) ELSE s

RECURSIVE TrimEnd(_)
TrimEnd(s) ==
    IF s # <<>> /\ s[Len(s)] \in Whitespace
    THEN TrimEnd(SubSeq(s, 1, Len(s) - 1)) ELSE s

\* str::trim
trim(s) == TrimEnd(TrimStart(s))

RECURSIVE SplitAcc(_, _, _)
SplitAcc(s, cur, out) ==
    IF s = <<>> THEN (IF cur = <<>> THEN out ELSE Append(out, cur))
    ELSE IF Head(s) \in Whitespace
         THEN SplitAcc(Tail(s), <<>>, IF cur = <<>> THEN out ELSE Append(out, cur))
         ELSE SplitAcc(Tail(s), Append(cur, Head(s)), out)

\* str::split_whitespace, collected
split_whitespace(s) == SplitAcc(s, <<>>, <<>>)

\* whether the text holds the pattern anywhere
Contains(s, pat) ==
    \E i \in 1..(Len(s) - Len(pat) + 1) : SubSeq(s, i, i + Len(pat) - 1) = pat

RECURSIVE Unlines(_)
\* the lines, each ended by a newline
Unlines(ls) ==
    IF ls = <<>> THEN <<>> ELSE Head(ls) \o <<"\n">> \o Unlines(Tail(ls))

(***************************************************************************)
(* The remote device                                                       *)
(***************************************************************************)
FbPath == <<"/", "d", "e", "v", "/", "f", "b", "0">>
LibPath == <<"/", "l", "i", "b", "/", "l", "i", "b", "c", ".", "s", "o">>

\* the processes named xochitl the device may run
Pids == {7, 12}

\* a mapping table is ordered by start offset: entry i starts at VmaStart(i)
VmaStart(i) == 1879048192 + i * 40960
VmaEnd(i) == VmaStart(i) + 4096

Vma(i, path) == [start_offset |-> VmaStart(i), end_offset |-> VmaEnd(i),
                 backing_device_path |-> path]

\* the tables of up to n entries, each backed by the device or by a library
Tables(n) ==
    UNION {{[i \in 1..k |-> Vma(i, f[i])] : f \in [1..k -> {FbPath, LibPath}]}
           : k \in 1..n}

\* one line of /proc/<pid>/maps
MapsLine(v) ==
    ToHex(v.start_offset) \o <<"-">> \o ToHex(v.end_offset)
        \o <<" ", "r", "w", "-", "s", " ">> \o v.backing_device_path

\* the orders in which pidof may list the processes of S
Orders(S) ==
    {f \in [1..Cardinality(S) -> S] : \A i, j \in 1..Cardinality(S) : f[i] = f[j] => i = j}

RECURSIVE Unwords(_)
\* the words, separated by one space
Unwords(ws) ==
    IF ws = <<>> THEN <<>>
    ELSE IF Len(ws) = 1 THEN Head(ws)
    ELSE Head(ws) \o <<" ">> \o Unwords(Tail(ws))

\* stdout of /bin/pidof xochitl when it lists the processes in this order
PidofStdout(order) ==
    IF order = <<>> THEN <<>>
    ELSE Unwords([i \in 1..Len(order) |-> ToDec(order[i])]) \o <<"\n">>

RECURSIVE GrepOut(_, _, _, _, _)
\* grep -C<c>: every line within c lines of a matching line, in file order,
\* with "--" between two groups that are not adjacent
GrepOut(lines, c, i, last, out) ==
    IF i > Len(lines) THEN out
    ELSE IF \E j \in 1..Len(lines) :
                /\ Contains(lines[j], FbPath)
                /\ i - j <= c
                /\ j - i <= c
         THEN GrepOut(lines, c, i + 1, i,
                      IF last > 0 /\ last < i - 1
                      THEN out \o << <<"-", "-">>, lines[i] >>
                      ELSE Append(out, lines[i]))
         ELSE GrepOut(lines, c, i + 1, last, out)

\* grep without context lines
grep_C0(lines) == GrepOut(lines, 0, 1, 0, <<>>)

\* grep -C1 '/dev/fb0' <file>: the lines it prints
grep_C1(lines) == GrepOut(lines, 1, 1, 0, <<>>)

\* head -n1
head_n1(lines) == IF lines = <<>> THEN <<>> ELSE <<lines[1]>>

\* tail -n1
tail_n1(lines) == IF lines = <<>> THEN <<>> ELSE <<lines[Len(lines)]>>

RECURSIVE UpToDash(_)
UpToDash(s) ==
    IF s = <<>> \/ Head(s) = "-" THEN <<>> ELSE <<Head(s)>> \o UpToDash(Tail(s))

\* sed 's/-.*$//' on each line
sed_strip(lines) == [i \in 1..Len(lines) |-> UpToDash(lines[i])]

(***************************************************************************)
(* State                                                                   *)
(***************************************************************************)
VARIABLES
    maps,            \* device: pid -> mapping table, <<>> when no such process
    page,            \* device: what the screen shows (as the decoder renders it)
    pc,              \* position of main()
    exit,            \* "running", "ok" (Ok(())) or "err" (Err(..))
    err,             \* which failure ended the run
    issued,          \* remote commands sent so far
    pid_output,      \* stdout of pidof
    pid,             \* the process id in use
    all_pids,        \* candidates of the fallback scan
    scan_i,          \* position of the fallback scan
    found_pid,       \* what the fallback scan found, <<>> for None
    skip_bytes_hex,  \* address text after trim
    skip_bytes,      \* parsed address + 7
    dd_cmd,          \* the read request
    fb_data,         \* number of bytes the read returned
    files,           \* files this run has left on disk
    raw_len,         \* bytes in remarkable_fb.raw
    ffmpeg_input,    \* bytes of the file ffmpeg was started on, -1 if never
    png,             \* content of remarkable_screen.png
    contours,        \* what find_contours returned
    found_contours, large_contours,
    min_x, min_y, max_x, max_y,   \* the accumulators (lines 193-196)
    box,             \* the padded, clamped box (lines 247-250)
    cropped,         \* the image saved as remarkable_screen_cropped.png
    outcome          \* what the extractor ended in

deviceVars == <<maps, page>>
runVars == <<pc, exit, err, issued>>
resolverVars == <<pid_output, pid, all_pids, scan_i, found_pid>>
locatorVars == <<skip_bytes_hex, skip_bytes, dd_cmd>>
streamVars == <<fb_data, files, raw_len, ffmpeg_input, png>>
extractVars == <<contours, found_contours, large_contours,
                 min_x, min_y, max_x, max_y, box, cropped, outcome>>
vars == <<deviceVars, runVars, resolverVars, locatorVars, streamVars, extractVars>>

temp_file == "remarkable_fb.raw"
output_file == "remarkable_screen.png"
output_path == "remarkable_screen_cropped.png"

NoCmd == [cmd |-> "none", pid |-> <<>>, skip |-> 0, count |-> 0]
Cmd(c, p) == [cmd |-> c, pid |-> p, skip |-> 0, count |-> 0]
NoBox == [min_x |-> 0, min_y |-> 0, max_x |-> 0, max_y |-> 0]
NoCrop == [from |-> "none", x |-> 0, y |-> 0, width |-> 0, height |-> 0]

\* the processes running now
Running == {p \in Pids : maps[p] # <<>>}

\* the lines of /proc/<tok>/maps; no lines when there is no such process
MapsFile(tok) ==
    IF \E p \in Running : ToDec(p) = tok
    THEN LET p == CHOOSE q \in Running : ToDec(q) = tok
         IN  [i \in 1..Len(maps[p]) |-> MapsLine(maps[p][i])]
    ELSE <<>>

\* stdout of: grep -C1 /dev/fb0 /proc/<tok>/maps
maps_check(tok) == Unlines(grep_C1(MapsFile(tok)))

\* stdout of: grep -C1 '/dev/fb0' /proc/<tok>/maps | tail -n1 | sed 's/-.*$//'
address_cmd(tok) == Unlines(sed_strip(tail_n1(grep_C1(MapsFile(tok)))))

\* return Err(..): the run ends with a failure
Abort(kind) == /\ pc' = "done" /\ exit' = "err" /\ err' = kind
Goto(l) == /\ pc' = l /\ UNCHANGED <<exit, err>>

(***************************************************************************)
(* Remote Process Resolver (lines 18-65)                                   *)
(***************************************************************************)
\* the last id of the output
last_token(toks) == toks[Len(toks)]

\* lines 25-26: split_whitespace().next()
first_token(toks) == toks[1]

\* lines 19-29: pidof, then the first id of its output
Pidof ==
    /\ pc = "pidof"
    /\ issued' = Append(issued, Cmd("pidof", <<>>))
    /\ \E ok \in BOOLEAN, order \in Orders(Running) :
         IF ~ok
         THEN /\ Abort("RemoteError")
              /\ UNCHANGED resolverVars
         ELSE LET out == PidofStdout(order)
                  toks == split_whitespace(out)
              IN  /\ pid_output' = out
                  /\ IF toks = <<>>
                     THEN /\ Abort("ProcessNotFound")
                          /\ UNCHANGED <<pid, all_pids, scan_i, found_pid>>
                     ELSE /\ pid' = first_token(toks)
                          /\ Goto("maps_check")
                          /\ UNCHANGED <<all_pids, scan_i, found_pid>>
    /\ UNCHANGED <<deviceVars, locatorVars, streamVars, extractVars>>

\* lines 33-42: does the first id have the mapping?
MapsCheck ==
    /\ pc = "maps_check"
    /\ issued' = Append(issued, Cmd("maps_check", pid))
    /\ \E ok \in BOOLEAN :
         IF ~ok
         THEN /\ Abort("RemoteError")
              /\ UNCHANGED <<all_pids, scan_i>>
         ELSE IF maps_check(pid) = <<>>
              THEN /\ all_pids' = split_whitespace(pid_output)
                   /\ scan_i' = 1
                   /\ Goto("scan")
              ELSE /\ Goto("address")
                   /\ UNCHANGED <<all_pids, scan_i>>
    /\ UNCHANGED <<deviceVars, pid_output, pid, found_pid, locatorVars, streamVars, extractVars>>

\* lines 45-56: the loop ends at the break or when all_pids is used up
loop_ends(found, i) == found \/ i = Len(all_pids)

\* lines 45-64: one candidate of the fallback scan, and what follows the loop
ScanStep ==
    /\ pc = "scan"
    /\ issued' = Append(issued, Cmd("maps_check", all_pids[scan_i]))
    /\ \E ok \in BOOLEAN :
         IF ~ok
         THEN /\ Abort("RemoteError")
              /\ UNCHANGED <<pid, scan_i, found_pid>>
         ELSE LET found == maps_check(all_pids[scan_i]) # <<>>
                  fp == IF found THEN all_pids[scan_i] ELSE found_pid
              IN  /\ found_pid' = fp
                  /\ IF loop_ends(found, scan_i)
                     THEN /\ UNCHANGED scan_i
                          /\ IF fp # <<>>
                             THEN /\ pid' = fp
                                  /\ Goto("address")
                             ELSE /\ Abort("MappingNotFound")
                                  /\ UNCHANGED pid
                     ELSE /\ scan_i' = scan_i + 1
                          /\ Goto("scan")
                          /\ UNCHANGED pid
    /\ UNCHANGED <<deviceVars, pid_output, all_pids, locatorVars, streamVars, extractVars>>

(***************************************************************************)
(* Memory Map Locator (lines 67-87) and the read request (lines 89-111)    *)
(***************************************************************************)
\* lines 68-111: the address command, trim, parse, + 7, and dd_cmd
Address ==
    /\ pc = "address"
    /\ issued' = Append(issued, Cmd("address", pid))
    /\ \E ok \in BOOLEAN :
         IF ~ok
         THEN /\ Abort("RemoteError")
              /\ UNCHANGED locatorVars
         ELSE LET text == trim(address_cmd(pid))
                  parsed == from_str_radix(text)
              IN  /\ skip_bytes_hex' = text
                  /\ IF ~parsed.ok
                     THEN /\ Abort("AddressParseError")
                          /\ UNCHANGED <<skip_bytes, dd_cmd>>
                     ELSE /\ skip_bytes' = parsed.val + skip_correction
                          /\ dd_cmd' = [cmd |-> "dd", pid |-> pid,
                                        skip |-> parsed.val + skip_correction,
                                        count |-> window_bytes]
                          /\ Goto("dd")
    /\ UNCHANGED <<deviceVars, resolverVars, streamVars, extractVars>>

(***************************************************************************)
(* Framebuffer Streamer (lines 113-125)                                    *)
(***************************************************************************)
\* what one read of window_bytes bytes of /proc/<pid>/mem may return: nothing,
\* a part (a read error truncates the result) or the whole frame
ReadLens(tok) ==
    IF \E p \in Running : ToDec(p) = tok
    THEN {0, window_bytes - 1, window_bytes}
    ELSE {0}

\* lines 114-119: the remote read
Dd ==
    /\ pc = "dd"
    /\ issued' = Append(issued, dd_cmd)
    /\ \E ok \in BOOLEAN, n \in ReadLens(dd_cmd.pid) :
         IF ~ok
         THEN /\ Abort("RemoteError")
              /\ UNCHANGED fb_data
         ELSE /\ fb_data' = n
              /\ Goto("save_raw")
    /\ UNCHANGED <<deviceVars, resolverVars, locatorVars,
                   files, raw_len, ffmpeg_input, png, extractVars>>

\* lines 122-125: File::create and write_all of everything that was read
SaveRaw ==
    /\ pc = "save_raw"
    /\ \E created \in BOOLEAN :
         IF ~created
         THEN /\ Abort("IoError")
              /\ UNCHANGED <<files, raw_len>>
         ELSE /\ files' = files \cup {temp_file}
              /\ raw_len' = fb_data
              /\ Goto("ffmpeg")
    /\ UNCHANGED <<deviceVars, issued, resolverVars, locatorVars,
                   fb_data, ffmpeg_input, png, extractVars>>

(***************************************************************************)
(* Image Decoder (lines 127-156)                                           *)
(***************************************************************************)
\* lines 133-156: ffmpeg on the raw file; on success the raw file is removed.
\* ffmpeg writes the image file it was asked for when it succeeds, and may
\* leave one behind when it fails.
Ffmpeg ==
    /\ pc = "ffmpeg"
    /\ ffmpeg_input' = raw_len
    /\ \E success \in BOOLEAN, content \in {"none", "image", "corrupt"} :
         IF success
         THEN /\ content # "none"
              /\ png' = content
              /\ files' = (files \cup {output_file}) \ {temp_file}
              /\ Goto("open")
         ELSE /\ content # "image"
              /\ png' = content
              /\ files' = IF content = "none" THEN files
                          ELSE files \cup {output_file}
              /\ Abort("DecodeFailure")
    /\ UNCHANGED <<deviceVars, issued, resolverVars, locatorVars,
                   fb_data, raw_len, extractVars>>

\* a process named xochitl ends while the run talks to the device
ProcessExit ==
    /\ pc \in {"pidof", "maps_check", "scan", "address", "dd"}
    /\ \E p \in Running : maps' = [maps EXCEPT ![p] = <<>>]
    /\ UNCHANGED <<page, runVars, resolverVars, locatorVars, streamVars, extractVars>>

(***************************************************************************)
(* Content Extractor (lines 158-279)                                       *)
(***************************************************************************)
\* A page is white paper (255) with horizontal pen strokes of one intensity
\* (level): a stroke covers the n pixels (x, y) .. (x + n - 1, y).  The
\* strokes of the catalogue lie in rows of their own, far from each other.
Stroke(x, y, n) == [x |-> x, y |-> y, n |-> n]

StrokeCatalogue ==
    { Stroke(10, 50, 111),      \* inside the exclusion zone, over (50, 50)
      Stroke(150, 100, 160),    \* leaves the exclusion zone at x = 200
      Stroke(201, 201, 101),    \* just outside the zone, from (201, 201)
      Stroke(900, 700, 99),
      Stroke(900, 710, 100),
      Stroke(900, 720, 101),
      Stroke(10, 300, 100),     \* at the left edge, all of it left of x = 150
      Stroke(1300, 1871, 104) } \* ends in the bottom right corner

Levels == {0, threshold - 1, threshold}

Pages(n) ==
    {[strokes |-> S, level |-> l] :
        S \in {T \in SUBSET StrokeCatalogue : Cardinality(T) <= n}, l \in Levels}

Point(x, y) == [x |-> x, y |-> y]

\* gray_img.get_pixel(x, y).0[0]
get_pixel(x, y) ==
    IF \E s \in page.strokes : y = s.y /\ s.x <= x /\ x < s.x + s.n
    THEN page.level ELSE 255

\* a mask without the exclusion zone
binary_img_no_zone(x, y) == IF get_pixel(x, y) < threshold THEN 0 ELSE 255

\* lines 170-180: the binary mask; 0 is handwriting, 255 is background
binary_img(x, y) ==
    IF x < ui_exclude_x /\ y < ui_exclude_y THEN 255
    ELSE IF get_pixel(x, y) < threshold THEN 0 ELSE 255

\* the ink pixels of one stroke that the mask shows, left to right
Region(s) ==
    LET Ink(p) == binary_img(p.x, p.y) = 0
    IN  SelectSeq([i \in 1..s.n |-> Point(s.x + i - 1, s.y)], Ink)

RECURSIVE RasterOrder(_)
\* the strokes from the top row down
RasterOrder(S) ==
    IF S = {} THEN <<>>
    ELSE LET s == CHOOSE t \in S : \A u \in S : t.y <= u.y
         IN  <<s>> \o RasterOrder(S \ {s})

\* line 183: one contour for each connected ink region of the mask, holding
\* the region's points (section 4.5, step 4 of the specification)
find_contours ==
    LET regions == [i \in 1..Cardinality(page.strokes) |->
                       Region(RasterOrder(page.strokes)[i])]
        Shown(r) == r # <<>>
    IN  SelectSeq(regions, Shown)

Min(a, b) == IF a < b THEN a ELSE b
Max(a, b) == IF a > b THEN a ELSE b

\* lines 227-230
in_bounds(point) ==
    /\ point.x >= 0
    /\ point.y >= 0
    /\ point.x < img_width
    /\ point.y < img_height

Least(S) == CHOOSE m \in S : \A k \in S : m <= k
Greatest(S) == CHOOSE m \in S : \A k \in S : m >= k

\* lines 226-237: the bounding box update over one contour's points: each
\* accumulator ends as the least (greatest) of its value before the loop and
\* the coordinates of the points that pass the test of lines 227-230
fold_points(points, acc) ==
    LET inside == {points[i] : i \in {j \in 1..Len(points) : in_bounds(points[j])}}
    IN  [acc EXCEPT !.min_x = Least({acc.min_x} \cup {q.x : q \in inside}),
                    !.min_y = Least({acc.min_y} \cup {q.y : q \in inside}),
                    !.max_x = Greatest({acc.max_x} \cup {q.x : q \in inside}),
                    !.max_y = Greatest({acc.max_y} \cup {q.y : q \in inside})]

\* a filter that also drops a contour of exactly min_contour_size points
is_noise_inclusive(points) == Len(points) <= min_contour_size

\* line 208: a contour this small is skipped
is_noise(points) == Len(points) < min_contour_size

RECURSIVE fold_contours(_, _, _)
\* lines 204-238: the loop over the contours
fold_contours(cs, i, acc) ==
    IF i > Len(cs) THEN acc
    ELSE fold_contours(cs, i + 1,
            IF is_noise(cs[i])
            THEN [acc EXCEPT !.found = acc.found + 1]
            ELSE fold_points(cs[i],
                    [acc EXCEPT !.found = acc.found + 1,
                                !.large = acc.large + 1]))

\* lines 193-199: the accumulators before the loop
acc_start == [min_x |-> img_width, min_y |-> img_height,
              max_x |-> init_max_x, max_y |-> 0, found |-> 0, large |-> 0]

\* u32::saturating_sub
saturating_sub(a, b) == IF a < b THEN 0 ELSE a - b

\* padding added with no clamp to the image
add_unclamped(v, dim) == v + padding

\* lines 249-250: (v + padding).min(dim - 1)
add_clamped(v, dim) == Min(v + padding, dim - 1)

\* lines 247-250: the padded box
padded(acc) == [min_x |-> saturating_sub(acc.min_x, padding),
                min_y |-> saturating_sub(acc.min_y, padding),
                max_x |-> add_clamped(acc.max_x, img_width),
                max_y |-> add_clamped(acc.max_y, img_height)]

\* a crop whatever the box
crop_always(bx, large) == TRUE

\* line 253
crop_guard(bx, large) ==
    bx.min_x < bx.max_x /\ bx.min_y < bx.max_y /\ large > 0

\* line 264: img.crop_imm(x, y, width, height), a view of the decoded image
\* cut to the image's own bounds
crop_imm(x, y, w, h) ==
    LET cx == Min(x, img_width)
        cy == Min(y, img_height)
    IN  [from |-> "img", x |-> cx, y |-> cy,
         width |-> Min(w, img_width - cx), height |-> Min(h, img_height - cy)]

\* lines 158-279: image::open, the mask, the contours, the box, the crop
Extract ==
    /\ pc = "open"
    /\ IF png # "image"
       THEN /\ Abort("ImageOpenError")
            /\ UNCHANGED <<files, extractVars>>
       ELSE LET cs == find_contours
                acc == fold_contours(cs, 1, acc_start)
                bx == padded(acc)
            IN  /\ contours' = cs
                /\ found_contours' = acc.found
                /\ large_contours' = acc.large
                /\ min_x' = acc.min_x
                /\ min_y' = acc.min_y
                /\ max_x' = acc.max_x
                /\ max_y' = acc.max_y
                /\ box' = bx
                /\ IF crop_guard(bx, acc.large)
                   THEN \E saved \in BOOLEAN :
                          IF saved
                          THEN /\ cropped' = crop_imm(bx.min_x, bx.min_y,
                                                      bx.max_x - bx.min_x + 1,
                                                      bx.max_y - bx.min_y + 1)
                               /\ files' = files \cup {output_path}
                               /\ outcome' = "Cropped"
                               /\ pc' = "done"
                               /\ exit' = "ok"
                               /\ UNCHANGED err
                          ELSE /\ Abort("IoError")
                               /\ UNCHANGED <<files, cropped, outcome>>
                   ELSE /\ outcome' = "NoSignificantContent"
                        /\ pc' = "done"
                        /\ exit' = "ok"
                        /\ UNCHANGED <<err, files, cropped>>
    /\ UNCHANGED <<deviceVars, issued, resolverVars, locatorVars,
                   fb_data, raw_len, ffmpeg_input, png>>

(***************************************************************************)
(* Specifications                                                          *)
(***************************************************************************)
StartOfMain ==
    /\ pc = "pidof" /\ exit = "running" /\ err = "none" /\ issued = <<>>
    /\ pid_output = <<>> /\ pid = <<>> /\ all_pids = <<>> /\ scan_i = 0
    /\ found_pid = <<>>
    /\ skip_bytes_hex = <<>> /\ skip_bytes = 0 /\ dd_cmd = NoCmd
    /\ fb_data = 0 /\ files = {} /\ raw_len = 0 /\ ffmpeg_input = -1
    /\ png = "none"
    /\ contours = <<>> /\ found_contours = 0 /\ large_contours = 0
    /\ min_x = 0 /\ min_y = 0 /\ max_x = 0 /\ max_y = 0
    /\ box = NoBox /\ cropped = NoCrop /\ outcome = "none"

\* a page with one stroke the extractor keeps, and the blank page
FewPages ==
    {[strokes |-> {Stroke(900, 720, 101)}, level |-> 0],
     [strokes |-> {}, level |-> 0]}

\* any device, one of two pages
Init ==
    /\ maps \in [Pids -> Tables(MaxVmas) \cup {<<>>}]
    /\ page \in FewPages
    /\ StartOfMain

\* one device (process 12 holds the framebuffer, process 7 does not), any page
InitPages ==
    /\ maps = [p \in Pids |-> IF p = 12
                               THEN <<Vma(1, LibPath), Vma(2, FbPath), Vma(3, LibPath)>>
                               ELSE <<Vma(1, LibPath)>>]
    /\ page \in Pages(MaxStrokes)
    /\ StartOfMain

Next ==
    \/ Pidof
    \/ MapsCheck
    \/ ScanStep
    \/ Address
    \/ Dd
    \/ SaveRaw
    \/ Ffmpeg
    \/ Extract
    \/ ProcessExit

Spec == Init /\ [][Next]_vars

SpecPages == InitPages /\ [][Next]_vars

(***************************************************************************)
(* What the claims speak of                                                *)
(***************************************************************************)
\* the remote commands of one kind sent so far
Sent(c) == {i \in 1..Len(issued) : issued[i].cmd = c}

\* the mapping table of the process a pid text names, <<>> if none runs
TableOf(tok) ==
    IF \E p \in Running : ToDec(p) = tok
    THEN maps[CHOOSE p \in Running : ToDec(p) = tok]
    ELSE <<>>

\* the entries of a table that the device backs
Matching(t) == {i \in 1..Len(t) : t[i].backing_device_path = FbPath}

HasMapping(tok) == Matching(TableOf(tok)) # {}

\* the start offset the locator handed on
Located == skip_bytes - skip_correction

\* main() has finished the extractor on a decoded image
Extracted == pc = "done" /\ png = "image"

\* the contours that pass the noise filter
Survivors == {i \in 1..Len(contours) : Len(contours[i]) >= min_contour_size}

\* the points that reach the bounding box
Contributing ==
    UNION {{contours[i][j] : j \in 1..Len(contours[i])} : i \in Survivors}

InkAt(x, y) == get_pixel(x, y) < threshold

Covers(x, y) == min_x <= x /\ x <= max_x /\ min_y <= y /\ y <= max_y

(***************************************************************************)
(* C1: a captured buffer whose length is not width*height*bytes_per_pixel  *)
(* ends the run in the streamer: main() never goes on to the raw file, the *)
(* decoder or the extractor with it, and the decoder is never started on a *)
(* file of another length.                                                 *)
(***************************************************************************)
C1_IncompleteCaptureStops ==
    /\ pc \in {"save_raw", "ffmpeg", "open"} => fb_data = window_bytes
    /\ ffmpeg_input \in {-1, window_bytes}

(***************************************************************************)
(* C2, as claimed: the locator returns the start offset of the last entry  *)
(* of the table that the device backs.                                     *)
(***************************************************************************)
C2_LastMatchingEntry ==
    (pc = "dd" /\ HasMapping(pid)) =>
        Located = TableOf(pid)[Greatest(Matching(TableOf(pid)))].start_offset

(***************************************************************************)
(* C2, amended: the locator returns the start offset of the entry that     *)
(* follows the last matching entry in the table, and of the last matching  *)
(* entry itself only when nothing follows it.                              *)
(***************************************************************************)
C2_EntryAfterLastMatch ==
    (pc = "dd" /\ HasMapping(pid)) =>
        LET t == TableOf(pid)
            last == Greatest(Matching(t))
        IN  Located = t[IF last < Len(t) THEN last + 1 ELSE last].start_offset

\* two matching entries, the last of them followed by another entry
C2_Witness ==
    /\ pc = "dd"
    /\ Matching(TableOf(pid)) = {1, 2}
    /\ Len(TableOf(pid)) = 3
    /\ Located = VmaStart(3)

(***************************************************************************)
(* C3: the resolver settles on the first id pidof listed whose mapping     *)
(* table holds the device path, and the address lookup and the memory read *)
(* use that id; no id listed ends the run with ProcessNotFound, no id with *)
(* the mapping ends it with MappingNotFound, both before any address       *)
(* lookup or memory read is sent.                                          *)
(***************************************************************************)
C3_FirstCandidateWithMapping ==
    LET cands == split_whitespace(pid_output)
    IN  /\ pc \in {"address", "dd", "save_raw", "ffmpeg", "open"} =>
              \E k \in 1..Len(cands) :
                  /\ cands[k] = pid
                  /\ \A j \in 1..(k - 1) : ~HasMapping(cands[j])
                  /\ TableOf(pid) # <<>> => HasMapping(pid)
        /\ \A i \in Sent("address") \cup Sent("dd") : issued[i].pid = pid
        /\ (pc # "pidof" /\ err # "RemoteError" /\ cands = <<>>) =>
              err = "ProcessNotFound"
        /\ err \in {"ProcessNotFound", "MappingNotFound"} =>
              /\ pc = "done" /\ exit = "err"
              /\ Sent("address") \cup Sent("dd") = {}
        /\ err = "ProcessNotFound" => cands = <<>> /\ Len(issued) = 1
        /\ err = "MappingNotFound" =>
              cands # <<>> /\ \A j \in 1..Len(cands) : ~HasMapping(cands[j])

\* the first id listed has no mapping, the second has, and the read used it
C3_Witness ==
    /\ pc = "save_raw"
    /\ Len(split_whitespace(pid_output)) = 2
    /\ pid = split_whitespace(pid_output)[2]
    /\ TableOf(split_whitespace(pid_output)[1]) # <<>>
    /\ HasMapping(pid)
    /\ issued[Len(issued)].cmd = "dd"

(***************************************************************************)
(* C4, as claimed: with the noise threshold of 100, a contour of 99 points *)
(* is left out of the bounding box, one of exactly 100 points is left out, *)
(* and one of 101 points is taken in.                                      *)
(***************************************************************************)
C4_HundredExcluded ==
    (Extracted /\ Len(contours) = 1) =>
        LET n == Len(contours[1])
        IN  /\ n = 99 => large_contours = 0
            /\ n = 100 => large_contours = 0
            /\ n = 101 => large_contours = 1

(***************************************************************************)
(* C4, amended: a contour of 99 points is left out of the bounding box; a  *)
(* contour of exactly 100 points is taken in, as is one of 101 points.     *)
(***************************************************************************)
C4_HundredIncluded ==
    Extracted =>
        /\ Len(contours) = 1 =>
              LET n == Len(contours[1])
                  c == contours[1]
              IN  /\ n = 99 =>
                        /\ large_contours = 0
                        /\ outcome = "NoSignificantContent"
                        /\ min_x = img_width /\ min_y = img_height
                  /\ n \in {100, 101} =>
                        /\ large_contours = 1
                        /\ Covers(c[1].x, c[1].y)
                        /\ Covers(c[n].x, c[n].y)
        /\ (\A i \in 1..Len(contours) : Len(contours[i]) \in {99, 100, 101}) =>
              large_contours =
                  Cardinality({i \in 1..Len(contours) : Len(contours[i]) # 99})

\* one contour of exactly 100 points, counted and cropped to
C4_Witness ==
    /\ Extracted
    /\ Len(contours) = 1
    /\ Len(contours[1]) = 100
    /\ large_contours = 1
    /\ outcome = "Cropped"
    /\ min_x = 900 /\ max_x = 999

(***************************************************************************)
(* C5: a cropped file is written only when a contour passed the noise      *)
(* filter and the padded, clamped box has min_x < max_x and min_y < max_y; *)
(* otherwise (a page with no pixel below the threshold included) the       *)
(* extractor ends in NoSignificantContent, no cropped file is written and  *)
(* the run ends successfully.                                              *)
(***************************************************************************)
C5_CropOnlyWithContent ==
    LET content == /\ Survivors # {}
                   /\ box.min_x < box.max_x
                   /\ box.min_y < box.max_y
        blank == \A s \in page.strokes : page.level >= threshold
    IN  /\ output_path \in files => Extracted /\ content
        /\ cropped # NoCrop => output_path \in files
        /\ (Extracted /\ ~content) =>
              /\ outcome = "NoSignificantContent"
              /\ output_path \notin files
              /\ cropped = NoCrop
              /\ exit = "ok"
        /\ (Extracted /\ blank) =>
              /\ outcome = "NoSignificantContent"
              /\ output_path \notin files
              /\ exit = "ok"

\* strokes drawn at exactly the threshold intensity: no ink, no crop
C5_Witness ==
    /\ Extracted
    /\ page.strokes # {}
    /\ page.level = threshold
    /\ contours = <<>>
    /\ outcome = "NoSignificantContent"
    /\ exit = "ok"
    /\ output_path \notin files

(***************************************************************************)
(* C6: a pixel with x < 200 and y < 200 is background in the mask whatever *)
(* its intensity, so ink at (50, 50) never puts a point into the bounding  *)
(* box; ink at (201, 201) is ink in the mask, and when its contour passes  *)
(* the noise filter the bounding box takes it in.                          *)
(***************************************************************************)
C6_ExclusionZone ==
    /\ binary_img(50, 50) = 255
    /\ binary_img(0, 0) = 255 /\ binary_img(199, 199) = 255 /\ binary_img(199, 100) = 255
    /\ InkAt(201, 201) => binary_img(201, 201) = 0
    /\ InkAt(200, 100) => binary_img(200, 100) = 0
    /\ Extracted =>
          /\ \A q \in Contributing : ~(q.x < 200 /\ q.y < 200)
          /\ Point(50, 50) \notin Contributing
          /\ (InkAt(201, 201) /\ Point(201, 201) \in Contributing) =>
                Covers(201, 201)
          /\ (InkAt(201, 201) /\ page.strokes = {Stroke(201, 201, 101)}) =>
                /\ Point(201, 201) \in Contributing
                /\ min_x = 201 /\ min_y = 201

\* ink over (50, 50) and ink from (201, 201): only the second is in the box
C6_Witness ==
    /\ Extracted
    /\ InkAt(50, 50)
    /\ InkAt(201, 201)
    /\ outcome = "Cropped"
    /\ Point(201, 201) \in Contributing
    /\ min_x = 201 /\ min_y = 201 /\ max_y = 201

(***************************************************************************)
(* C7: a fatal failure of the resolver, the locator, the streamer or the   *)
(* decoder (no process, no mapping, unparsable address, remote command     *)
(* error, decoder status, undecodable image) ends the run with an error    *)
(* and leaves no file written by this run; no later stage has run and      *)
(* there is no cropped image.                                              *)
(***************************************************************************)
C7_FatalLeavesNoFile ==
    err \in {"ProcessNotFound", "MappingNotFound", "AddressParseError",
             "RemoteError", "DecodeFailure", "ImageOpenError"} =>
        /\ pc = "done" /\ exit = "err"
        /\ outcome = "none" /\ cropped = NoCrop
        /\ files = {}

(***************************************************************************)
(* C8: whenever a crop is written, the box is the accumulated box widened  *)
(* by 50 pixels on each side and clamped to the image,                     *)
(* 0 <= min_x <= max_x <= width - 1 and 0 <= min_y <= max_y <= height - 1, *)
(* and the crop is max_x - min_x + 1 by max_y - min_y + 1 pixels of the    *)
(* decoded image.                                                          *)
(***************************************************************************)
C8_PaddedClampedCrop ==
    output_path \in files =>
        /\ box.min_x = Max(0, min_x - 50)
        /\ box.min_y = Max(0, min_y - 50)
        /\ box.max_x = Min(img_width - 1, max_x + 50)
        /\ box.max_y = Min(img_height - 1, max_y + 50)
        /\ 0 <= box.min_x /\ box.min_x <= box.max_x /\ box.max_x <= img_width - 1
        /\ 0 <= box.min_y /\ box.min_y <= box.max_y /\ box.max_y <= img_height - 1
        /\ cropped.from = "img"
        /\ cropped.x = box.min_x /\ cropped.y = box.min_y
        /\ cropped.width = box.max_x - box.min_x + 1
        /\ cropped.height = box.max_y - box.min_y + 1

\* a crop whose box was clamped at the left, the right and the bottom edge
C8_Witness ==
    /\ output_path \in files
    /\ min_x = 10 /\ box.min_x = 0
    /\ max_x = img_width - 1 /\ box.max_x = img_width - 1
    /\ min_y = 300 /\ box.min_y = 250
    /\ max_y = img_height - 1 /\ box.max_y = img_height - 1
    /\ cropped.width = img_width /\ cropped.height = img_height - 250

(***************************************************************************)
(* C9: before padding, whenever a contour passed the noise filter, min_x,  *)
(* min_y, max_x and max_y are the least and greatest coordinates of the    *)
(* points of the contours that passed, with nothing left of the values the *)
(* accumulators started from.                                              *)
(***************************************************************************)
C9_BoxIsMinMaxOfSurvivors ==
    (Extracted /\ Survivors # {}) =>
        /\ min_x = Least({q.x : q \in Contributing})
        /\ min_y = Least({q.y : q \in Contributing})
        /\ max_x = Greatest({q.x : q \in Contributing})
        /\ max_y = Greatest({q.y : q \in Contributing})

(***************************************************************************)
(* C10: the read starts at the parsed hexadecimal start offset plus 7 and  *)
(* asks for 1872*1404*2 bytes of the resolved process's memory; an address *)
(* text that is empty or not hexadecimal ends the run with                 *)
(* AddressParseError before any read is sent.                              *)
(***************************************************************************)
C10_ReadRequest ==
    LET hex == skip_bytes_hex # <<>> /\
               \A i \in 1..Len(skip_bytes_hex) :
                   \E d \in 1..16 : HexChars[d] = skip_bytes_hex[i]
    IN  /\ \A i \in Sent("dd") :
              /\ hex
              /\ issued[i].skip >= 7
              /\ ToHex(issued[i].skip - 7) = skip_bytes_hex
              /\ issued[i].count = 5256576
              /\ issued[i].pid = pid
        /\ (Sent("address") # {} /\ err # "RemoteError" /\ ~hex) =>
              /\ pc = "done" /\ exit = "err" /\ err = "AddressParseError"
        /\ err = "AddressParseError" => ~hex /\ Sent("dd") = {}

\* a read sent for the address of a table's third entry
C10_Witness ==
    /\ Sent("dd") # {}
    /\ skip_bytes_hex = ToHex(VmaStart(3))
    /\ issued[Len(issued)] =
          [cmd |-> "dd", pid |-> pid, skip |-> VmaStart(3) + 7, count |-> 5256576]
====
